---- MODULE Spec2Model ----
(***************************************************************************)
(* A model of emoji_logger (src/emoji_logger/main.py): the Logger facade   *)
(* over the process-wide registry of named loggers, its level resolution,  *)
(* message assembly, exception decoration, duplicate filter, caller        *)
(* resolving formatter and console/file sinks.                             *)
(*                                                                         *)
(* The standard logging runtime the facade delegates to is modelled by its *)
(* documented behaviour: getLogger is get-or-create by name, a logger with *)
(* level NOTSET inherits the root level (WARNING), Filterer.filter stops   *)
(* at the first rejecting filter, callHandlers offers the one record       *)
(* object to every handler in attachment order, and a record that finds no *)
(* handler at all goes to the last-resort stderr handler when it is        *)
(* WARNING or above.  The root logger is left unconfigured and logger      *)
(* names are unrelated (no dotted parent/child names).                     *)
(***************************************************************************)
EXTENDS Integers, Sequences, FiniteSets, TLC

VARIABLES
    level,      \* name -> level set on the named logger (0 = NOTSET)
    handlers,   \* name -> sequence of attached handlers, in attachment order
    filters,    \* name -> sequence of DuplicateFilter.last_log slots
    instances,  \* one entry per Logger(...) call, in call order
    dirs,       \* directories that exist
    files,      \* path -> [exists, content]
    accepted,   \* name -> <<key>> of the last record the logger's filters let through
    lastOp      \* what the last operation was given and what it did

vars == <<level, handlers, filters, instances, dirs, files, accepted, lastOp>>

----------------------------------------------------------------------------
(* Bounds of the model *)

MaxInstances == 3    \* Logger(...) calls, the module-level one included
MaxFileRecords == 3  \* records appended to one log file

----------------------------------------------------------------------------
(* logging's numeric levels *)

NOTSET == 0
DEBUG == 10
INFO == 20
WARNING == 30
ERROR == 40
CRITICAL == 50

Names == {"MAIN", "app"}

LevelNos == {DEBUG, INFO, WARNING, ERROR, CRITICAL}

\* logging.getLevelName for the five standard levels
getLevelName(lv) ==
    CASE lv = DEBUG -> "DEBUG"
      [] lv = INFO -> "INFO"
      [] lv = WARNING -> "WARNING"
      [] lv = ERROR -> "ERROR"
      [] lv = CRITICAL -> "CRITICAL"
      [] OTHER -> "Level"

----------------------------------------------------------------------------
(* LogConfig *)

DefaultConfig ==
    [border_line |-> "==================================================",
     sep_line    |-> "--------------------------------------------------",
     date_format |-> "%Y-%m-%d %H:%M:%S"]

CustomConfig ==
    [border_line |-> "******************************",
     sep_line    |-> "------------------------------",
     date_format |-> "%Y-%m-%d"]

NoConfig == [border_line |-> "", sep_line |-> "", date_format |-> ""]  \* config=None

\* config or LogConfig()   (a dataclass instance is always truthy)
ConfigOrDefault(config) == IF config = NoConfig THEN DefaultConfig ELSE config

----------------------------------------------------------------------------
(* LogEmoji and Logger._get_emoji *)

LogEmoji ==
    [DEBUG |-> ":hammer_and_wrench:", INFO |-> ":books:", WARNING |-> ":fire:",
     ERROR |-> ":no_entry:", CRITICAL |-> ":x:", DEFAULT |-> ":question:"]

get_emoji(lv) ==
    LET nm == getLevelName(lv)
    IN  IF nm \in DOMAIN LogEmoji THEN LogEmoji[nm] ELSE LogEmoji.DEFAULT

----------------------------------------------------------------------------
(* Level resolution: Logger._get_level *)

StrLevel(s) == [isStr |-> TRUE, s |-> s, n |-> 0]
IntLevel(n) == [isStr |-> FALSE, s |-> "", n |-> n]

\* str.upper() on the level names the model passes in
Upper(s) ==
    CASE s = "debug" -> "DEBUG"
      [] s = "Info" -> "INFO"
      [] s = "warning" -> "WARNING"
      [] s = "Error" -> "ERROR"
      [] s = "critical" -> "CRITICAL"
      [] s = "trace" -> "TRACE"
      [] OTHER -> s

KnownLevels ==
    [DEBUG |-> DEBUG, INFO |-> INFO, WARNING |-> WARNING, ERROR |-> ERROR,
     CRITICAL |-> CRITICAL]

\* TRUE when _get_level takes the `case _` branch and logs the warning
InvalidLevel(lv) == lv.isStr /\ Upper(lv.s) \notin DOMAIN KnownLevels

\* the value _get_level returns
get_level(lv) ==
    IF lv.isStr
    THEN IF Upper(lv.s) \in DOMAIN KnownLevels THEN KnownLevels[Upper(lv.s)] ELSE INFO
    ELSE lv.n

\* f"Invalid log level: {lv}. Using INFO level."  (lv already upper-cased)
InvalidLevelText(lv) == <<"Invalid log level: ", Upper(lv.s), ". Using INFO level.">>

----------------------------------------------------------------------------
(* Call stacks.  A frame is [module, filename, function, lineno]; a stack is *)
(* a sequence of frames, innermost first, as inspect.stack() returns it.     *)

Frame(m, f, fn, ln) == [module |-> m, filename |-> f, function |-> fn, lineno |-> ln]

LoggerModule == "emoji_logger.main"
LoggerFile == <<"emoji_logger", "main.py">>
LoggingFile == <<"lib", "logging", "__init__.py">>

\* the caller's frames: a script's top level, and a helper g of a module
\* named logging_helpers called from f called from the top level
TopFrame == Frame("__main__", <<"srv", "app.py">>, "<module>", 40)
FFrame == Frame("__main__", <<"srv", "app.py">>, "f", 12)
GFrame == Frame("logging_helpers", <<"srv", "logging_helpers.py">>, "g", 7)

ScriptStack == <<TopFrame>>
FuncStack == <<FFrame, TopFrame>>
HelperStack == <<GFrame, FFrame, TopFrame>>

\* the line of each leveled method's self.logger.<level>(...) call
MethodLine(lv) ==
    CASE lv = DEBUG -> 239
      [] lv = INFO -> 243
      [] lv = WARNING -> 247
      [] lv = ERROR -> 251
      [] lv = CRITICAL -> 255

MethodName(lv) ==
    CASE lv = DEBUG -> "debug"
      [] lv = INFO -> "info"
      [] lv = WARNING -> "warning"
      [] lv = ERROR -> "error"
      [] lv = CRITICAL -> "critical"

\* Logger.debug/info/... above the caller
MethodStack(lv, userStack) ==
    <<Frame(LoggerModule, LoggerFile, MethodName(lv), MethodLine(lv))>> \o userStack

\* Logger._get_level (line 133) under Logger.__init__ (line 94) above the caller
GetLevelStack(userStack) ==
    <<Frame(LoggerModule, LoggerFile, "_get_level", 133),
      Frame(LoggerModule, LoggerFile, "__init__", 94)>> \o userStack

\* inspect.stack() inside Logger.handle_msg: handle_msg, the leveled method, the caller
HandleMsgStack(lv, userStack) ==
    <<Frame(LoggerModule, LoggerFile, "handle_msg", 230)>> \o MethodStack(lv, userStack)

\* inspect.stack() inside CustomFormatter.format: format itself, then logging's
\* Handler.format, emit, Handler.handle, callHandlers, Logger.handle, _log and
\* the level method, then the frames that called logging
FormatStack(lv, callStack) ==
    <<Frame(LoggerModule, LoggerFile, "format", 178),
      Frame("logging", LoggingFile, "format", 0),
      Frame("logging", LoggingFile, "emit", 0),
      Frame("logging", LoggingFile, "handle", 0),
      Frame("logging", LoggingFile, "callHandlers", 0),
      Frame("logging", LoggingFile, "handle", 0),
      Frame("logging", LoggingFile, "_log", 0),
      Frame("logging", LoggingFile, MethodName(lv), 0)>> \o callStack

\* os.path.basename
Basename(path) == path[Len(path)]

\* str.startswith("logging") / str.startswith("pytest") on the module names in use
StartsWithLogging(m) == m \in {"logging", "logging_helpers"}
StartsWithPytest(m) == m \in {"pytest"}

\* logging's own findCaller: the first frame outside the logging package
Location(fr) ==
    [filename |-> Basename(fr.filename), funcName |-> fr.function, lineno |-> fr.lineno]

DefaultLocation(callStack) == Location(callStack[1])

----------------------------------------------------------------------------
(* Message assembly: Logger.handle_exception, Logger.handle_msg *)

\* a payload is a str or an Exception carrying a text; str(msg) is the text
StrPayload(t) == [isExc |-> FALSE, text |-> <<t>>]
ExcPayload(t) == [isExc |-> TRUE, text |-> <<t>>]
Str(msg) == msg.text

\* the exception being handled at the time of the call, "" when there is none
NoExc == ""

\* traceback.format_exc(), as its lines
format_exc(exc) ==
    IF exc = NoExc
    THEN <<"NoneType: None">>
    ELSE <<"Traceback (most recent call last):", exc>>

\* str.startswith("NoneType: None")
StartsWithNoneType(tb) == tb[1] = "NoneType: None"

\* a rendered message: the emoji and caller prefix, the text, the traceback lines
Message(emoji, caller, text, tb) ==
    [emoji |-> emoji, caller |-> caller, text |-> text, tb |-> tb]

\* handle_exception with every call appending the traceback text
handle_exception_always(msg, exc) == [text |-> Str(msg), tb |-> format_exc(exc)]

\* Logger.handle_exception: f"{msg}\n{traceback.format_exc()}" or str(msg)
handle_exception(msg, exc) ==
    IF ~StartsWithNoneType(format_exc(exc))
    THEN [text |-> Str(msg), tb |-> format_exc(exc)]
    ELSE [text |-> Str(msg), tb |-> <<>>]

\* Logger.handle_msg: f"{emoji} | {caller} | {msg}"
handle_msg(lv, msg, exc, userStack) ==
    LET fn == HandleMsgStack(lv, userStack)[3].function
        caller == IF fn = "<module>" THEN "main" ELSE fn
        body == IF lv \in {ERROR, CRITICAL}
                THEN handle_exception(msg, exc)
                ELSE [text |-> Str(msg), tb |-> <<>>]
    IN  Message(get_emoji(lv), caller, body.text, body.tb)

\* the message _get_level passes to self.logger.warning: no prefix
RawMessage(text) == Message("", "", text, <<>>)

----------------------------------------------------------------------------
(* DuplicateFilter *)

\* the values the model's records are built from, for numbering them
LevelNameSeq == <<"DEBUG", "INFO", "WARNING", "ERROR", "CRITICAL">>
CallerSeq == <<"", "main", "f", "g">>
TextSeq == <<<<"m1">>, <<"m2">>, <<"Invalid log level: ", "TRACE", ". Using INFO level.">>>>
TbSeq ==
    <<<<>>, <<"NoneType: None">>,
      <<"Traceback (most recent call last):", "ValueError: boom">>>>

IndexOf(seq, x) == CHOOSE i \in 1..Len(seq) : seq[i] = x
HashBase == Len(LevelNameSeq) + Len(CallerSeq) + Len(TextSeq) + Len(TbSeq)

\* a hash that leaves the level name out
HashOfMessageOnly(levelname, msg) ==
    ((IndexOf(CallerSeq, msg.caller)) * HashBase
        + IndexOf(TextSeq, msg.text)) * HashBase + IndexOf(TbSeq, msg.tb)

\* hash((record.levelname, record.getMessage())): an integer code of the pair,
\* distinct for distinct pairs of the model (the emoji is a function of the level)
Hash(levelname, msg) ==
    ((IndexOf(LevelNameSeq, levelname) * HashBase
        + IndexOf(CallerSeq, msg.caller)) * HashBase
        + IndexOf(TextSeq, msg.text)) * HashBase + IndexOf(TbSeq, msg.tb)

\* DuplicateFilter.last_log: None or an int
None == [isNone |-> TRUE, h |-> 0]
Some(h) == [isNone |-> FALSE, h |-> h]

\* a filter that never stores the hash it accepted
filter_forgetful(last_log, current_hash) ==
    [ok |-> Some(current_hash) # last_log, last_log |-> last_log]

\* DuplicateFilter.filter: accept and remember a hash that differs from last_log
DuplicateFilter_filter(last_log, current_hash) ==
    IF Some(current_hash) # last_log
    THEN [ok |-> TRUE, last_log |-> Some(current_hash)]
    ELSE [ok |-> FALSE, last_log |-> last_log]

\* logging.Filterer.filter: the filters in order, stopping at the first rejection
RECURSIVE RunFilters(_, _, _)
RunFilters(fs, h, i) ==
    IF i > Len(fs)
    THEN [ok |-> TRUE, fs |-> fs]
    ELSE LET r == DuplicateFilter_filter(fs[i], h)
         IN  IF r.ok
             THEN RunFilters([fs EXCEPT ![i] = r.last_log], h, i + 1)
             ELSE [ok |-> FALSE, fs |-> [fs EXCEPT ![i] = r.last_log]]

----------------------------------------------------------------------------
(* CustomFormatter *)

\* the frames format() skips
Skipped(fr) ==
    \/ fr.module = LoggerModule
    \/ StartsWithLogging(fr.module)
    \/ StartsWithPytest(fr.module)

\* the index of the first frame of stack[i..] that is not skipped, 0 when none
RECURSIVE FirstCaller(_, _)
FirstCaller(stack, i) ==
    IF i > Len(stack) THEN 0
    ELSE IF Skipped(stack[i]) THEN FirstCaller(stack, i + 1)
    ELSE i

\* record.__dict__.get("stacklevel", 2): a LogRecord has no such attribute,
\* so the scan is stack[2:], the third frame on
StartIndex == 2

\* the fixed layout of Logger._get_formatter, without the timestamp
Layout(config, record) ==
    [border_top |-> config.border_line,
     levelname  |-> record.levelname,
     name       |-> record.name,
     filename   |-> record.loc.filename,
     funcName   |-> record.loc.funcName,
     lineno     |-> record.loc.lineno,
     sep        |-> config.sep_line,
     message    |-> record.msg,
     border_bottom |-> config.border_line]

\* CustomFormatter.format: the text is rendered first, from the record as it
\* stands; then the record's location is overwritten with the first caller's
CustomFormatter_format(config, record, stack) ==
    LET original_format == Layout(config, record)
        k == FirstCaller(stack, StartIndex + 1)
    IN  [text |-> original_format,
         record |-> IF k = 0 THEN record
                    ELSE [record EXCEPT !.loc = Location(stack[k])]]

----------------------------------------------------------------------------
(* The logging runtime under the facade: levels, handlers, files *)

\* the root logger keeps its default level, WARNING
RootLevel == WARNING

\* Logger.getEffectiveLevel: the logger's own level, the root's when NOTSET
getEffectiveLevel(lv) == IF lv # NOTSET THEN lv ELSE RootLevel

\* a level test that lets the threshold level itself through no more
isEnabledFor_strict(lv, levelno) == levelno > getEffectiveLevel(lv)

\* Logger.isEnabledFor
isEnabledFor(lv, levelno) == levelno >= getEffectiveLevel(lv)

\* a log path: None, or a str as its components ("" has none)
NonePath == [isNone |-> TRUE, parts |-> <<>>]
StrPath(parts) == [isNone |-> FALSE, parts |-> parts]
Paths == {<<"logs", "app.log">>}

\* Path.parent
Parent(parts) == SubSeq(parts, 1, Len(parts) - 1)

\* `not log_path` taken as `log_path is None`
PathMissing_none_only(log_path) == log_path.isNone

\* `not log_path`: None or the empty string
PathMissing(log_path) == log_path.isNone \/ log_path.parts = <<>>

StreamHandler(owner) ==
    [kind |-> "stream", path |-> <<>>, fmt |-> DefaultConfig, owner |-> owner]
FileHandler(path, owner) ==
    [kind |-> "file", path |-> path, fmt |-> DefaultConfig, owner |-> owner]

\* logging.lastResort: a stderr handler at WARNING that prints the message alone
LastResortText(record) ==
    [border_top |-> "", levelname |-> "", name |-> "", filename |-> "",
     funcName |-> "", lineno |-> 0, sep |-> "", message |-> record.msg,
     border_bottom |-> ""]

Write(h, text) == [sink |-> h.kind, path |-> h.path, owner |-> h.owner, text |-> text]

\* Logger.callHandlers over the logger's own handlers: each handler formats
\* the same record object in turn and writes the text to its sink
RECURSIVE RunHandlers(_, _, _, _)
RunHandlers(hs, record, stack, i) ==
    IF i > Len(hs) THEN <<>>
    ELSE LET f == CustomFormatter_format(hs[i].fmt, record, stack)
         IN  <<Write(hs[i], f.text)>> \o RunHandlers(hs, f.record, stack, i + 1)

callHandlers(hs, record, stack) ==
    IF Len(hs) > 0 THEN RunHandlers(hs, record, stack, 1)
    ELSE IF record.levelno >= WARNING
         THEN <<[sink |-> "stderr", path |-> <<>>, owner |-> 0,
                 text |-> LastResortText(record)]>>
         ELSE <<>>

\* the file sinks' writes appended to their files
RECURSIVE AppendWrites(_, _, _)
AppendWrites(fl, writes, i) ==
    IF i > Len(writes) THEN fl
    ELSE IF writes[i].sink = "file"
         THEN AppendWrites(
                  [fl EXCEPT ![writes[i].path].content = Append(@, writes[i].text)],
                  writes, i + 1)
         ELSE AppendWrites(fl, writes, i + 1)

Record(name, levelno, msg, callStack) ==
    [levelno |-> levelno, levelname |-> getLevelName(levelno), name |-> name,
     msg |-> msg, loc |-> DefaultLocation(callStack)]

Key(record) == [levelname |-> record.levelname, msg |-> record.msg]

\* logging.Logger.<level>(msg): isEnabledFor, then handle (the filters, then
\* callHandlers), on a logger with level lv, filters fs, handlers hs
Emit(record, callStack, lv, fs, hs, fl) ==
    LET enabled == isEnabledFor(lv, record.levelno)
        fr == RunFilters(fs, Hash(record.levelname, record.msg), 1)
        ok == enabled /\ fr.ok
        writes == IF ok
                  THEN callHandlers(hs, record, FormatStack(record.levelno, callStack))
                  ELSE <<>>
    IN  [enabled |-> enabled,
         accepted |-> ok,
         filters |-> IF enabled THEN fr.fs ELSE fs,
         writes |-> writes,
         files |-> AppendWrites(fl, writes, 1)]

\* the key of the last record a logger accepted, <<>> before the first one
Remember(keys, key) == <<key>>

----------------------------------------------------------------------------
(* The Logger facade *)

State ==
    [level |-> level, handlers |-> handlers, filters |-> filters,
     instances |-> instances, dirs |-> dirs, files |-> files, accepted |-> accepted]

\* the process before emoji_logger is imported: no logger configured, no file
Fresh ==
    [level |-> [n \in Names |-> NOTSET],
     handlers |-> [n \in Names |-> <<>>],
     filters |-> [n \in Names |-> <<>>],
     instances |-> <<>>,
     dirs |-> {<<>>},
     files |-> [p \in Paths |-> [exists |-> FALSE, content |-> <<>>]],
     accepted |-> [n \in Names |-> <<>>]]

NoEmit(S, name) ==
    [enabled |-> FALSE, accepted |-> FALSE, filters |-> S.filters[name],
     writes |-> <<>>, files |-> S.files]

\* an addHandler that keeps only the newest handler
addHandler_replacing(hs, h) == <<h>>

\* logging.Logger.addHandler
addHandler(hs, h) == Append(hs, h)

\* logging.Logger.addFilter(DuplicateFilter())
addFilter(fs) == Append(fs, None)

\* Path.mkdir(parents=True, exist_ok=True), when the parent does not exist
Prefixes(parts) == {SubSeq(parts, 1, k) : k \in 0..Len(parts)}
MkParent(ds, parent) == IF parent \notin ds THEN ds \union Prefixes(parent) ELSE ds

\* Logger.__init__(name, level, is_save, log_path, config), called from userStack
Logger_init(S, name, lv, is_save, log_path, config, userStack) ==
    LET id == Len(S.instances) + 1
        \* line 94: _get_level, which may log the invalid-level warning
        callStack == GetLevelStack(userStack)
        record == Record(name, WARNING, RawMessage(InvalidLevelText(lv)), callStack)
        em == IF InvalidLevel(lv)
              THEN Emit(record, callStack, S.level[name], S.filters[name],
                        S.handlers[name], S.files)
              ELSE NoEmit(S, name)
        \* line 96: _set_stream_handler
        hs1 == addHandler(S.handlers[name], StreamHandler(id))
        fs1 == addFilter(em.filters)
        \* lines 97-101
        missing == is_save /\ PathMissing(log_path)
        saving == is_save /\ ~PathMissing(log_path)
        path == log_path.parts
        ds == IF saving THEN MkParent(S.dirs, Parent(path)) ELSE S.dirs
        opened == saving /\ Parent(path) \in ds
        result == IF missing THEN "ValueError"
                  ELSE IF saving /\ ~opened THEN "FileNotFoundError"
                  ELSE "ok"
    IN  [level |-> [S.level EXCEPT ![name] = get_level(lv)],
         handlers |-> [S.handlers EXCEPT ![name] =
                          IF opened THEN addHandler(hs1, FileHandler(path, id)) ELSE hs1],
         filters |-> [S.filters EXCEPT ![name] =
                          IF opened THEN addFilter(fs1) ELSE fs1],
         instances |-> Append(S.instances,
                          [name |-> name, config |-> ConfigOrDefault(config),
                           ok |-> result = "ok",
                           log_path |-> IF saving THEN log_path ELSE NonePath]),
         dirs |-> ds,
         files |-> IF opened THEN [em.files EXCEPT ![path].exists = TRUE] ELSE em.files,
         accepted |-> [S.accepted EXCEPT ![name] =
                          IF em.accepted THEN Remember(@, Key(record)) ELSE @],
         op |-> [op |-> "init", name |-> name, inst |-> id, levelno |-> WARNING,
                 levelArg |-> lv, payload |-> StrPayload(""), exc |-> NoExc,
                 stack |-> userStack, is_save |-> is_save, log_path |-> log_path,
                 config |-> config, result |-> result, warned |-> InvalidLevel(lv),
                 enabled |-> em.enabled, accepted |-> em.accepted,
                 msg |-> IF InvalidLevel(lv) THEN record.msg ELSE RawMessage(<<>>),
                 writes |-> em.writes]]

\* Logger.debug/info/warning/error/critical(msg) on instance i, called from
\* userStack while exc is being handled
Logger_log(S, i, levelno, msg, exc, userStack) ==
    LET name == S.instances[i].name
        callStack == MethodStack(levelno, userStack)
        record == Record(name, levelno, handle_msg(levelno, msg, exc, userStack),
                         callStack)
        em == Emit(record, callStack, S.level[name], S.filters[name],
                   S.handlers[name], S.files)
    IN  [level |-> S.level,
         handlers |-> S.handlers,
         filters |-> [S.filters EXCEPT ![name] = em.filters],
         instances |-> S.instances,
         dirs |-> S.dirs,
         files |-> em.files,
         accepted |-> [S.accepted EXCEPT ![name] =
                          IF em.accepted THEN Remember(@, Key(record)) ELSE @],
         op |-> [op |-> "log", name |-> name, inst |-> i, levelno |-> levelno,
                 levelArg |-> IntLevel(NOTSET), payload |-> msg, exc |-> exc,
                 stack |-> userStack, is_save |-> FALSE, log_path |-> NonePath,
                 config |-> NoConfig, result |-> "ok", warned |-> FALSE,
                 enabled |-> em.enabled, accepted |-> em.accepted,
                 msg |-> record.msg, writes |-> em.writes]]

\* line 258: logger = Logger(name="MAIN", level=logging.INFO, is_save=False)
Imported ==
    Logger_init(Fresh, "MAIN", IntLevel(INFO), FALSE, NonePath, NoConfig, ScriptStack)

Becomes(R) ==
    /\ level' = R.level
    /\ handlers' = R.handlers
    /\ filters' = R.filters
    /\ instances' = R.instances
    /\ dirs' = R.dirs
    /\ files' = R.files
    /\ accepted' = R.accepted
    /\ lastOp' = R.op

FilesBounded(R) == \A p \in Paths : Len(R.files[p].content) <= MaxFileRecords

Init ==
    /\ level = Imported.level
    /\ handlers = Imported.handlers
    /\ filters = Imported.filters
    /\ instances = Imported.instances
    /\ dirs = Imported.dirs
    /\ files = Imported.files
    /\ accepted = Imported.accepted
    /\ lastOp = [Imported.op EXCEPT !.op = "import"]

----------------------------------------------------------------------------
(* The operations, with their inputs drawn from the given sets *)

\* a Logger(...) call; a save is an [is_save, log_path] pair
ConstructFrom(names, levelArgs, saves, configs, stacks) ==
    /\ Len(instances) < MaxInstances
    /\ \E name \in names, lv \in levelArgs, sv \in saves, config \in configs,
          st \in stacks :
          LET R == Logger_init(State, name, lv, sv.is_save, sv.log_path, config, st)
          IN  FilesBounded(R) /\ Becomes(R)

\* a leveled call on a Logger whose construction succeeded
CallFrom(names, levelNos, payloads, excs, stacks) ==
    \E i \in 1..Len(instances), levelno \in levelNos, msg \in payloads,
       exc \in excs, st \in stacks :
        /\ instances[i].ok
        /\ instances[i].name \in names
        /\ LET R == Logger_log(State, i, levelno, msg, exc, st)
           IN  FilesBounded(R) /\ Becomes(R)

LevelArgs ==
    {StrLevel("debug"), StrLevel("Info"), StrLevel("WARNING"), StrLevel("Error"),
     StrLevel("CRITICAL"), StrLevel("trace"), IntLevel(NOTSET), IntLevel(ERROR)}
Save(is_save, log_path) == [is_save |-> is_save, log_path |-> log_path]
NoSave == Save(FALSE, NonePath)
LogFile == <<"logs", "app.log">>
Boom == "ValueError: boom"

(* Levels: every level argument, every leveled call *)
ConstructLevels ==
    ConstructFrom(Names, LevelArgs, {NoSave}, {NoConfig}, {ScriptStack})
CallLevels ==
    CallFrom({"app"}, LevelNos, {StrPayload("m1"), StrPayload("m2")}, {NoExc},
             {ScriptStack})
NextLevels == ConstructLevels \/ CallLevels
SpecLevels == Init /\ [][NextLevels]_vars

(* Duplicates: repeated calls from different callers, in and out of an       *)
(* exception handler, on loggers with one or several filters                 *)
ConstructDup ==
    ConstructFrom({"app"}, {StrLevel("debug"), StrLevel("trace")}, {NoSave},
                  {NoConfig}, {ScriptStack})
CallDup ==
    CallFrom({"app"}, {INFO, ERROR},
             {StrPayload("m1"), StrPayload("m2"), ExcPayload("m1")},
             {NoExc, Boom}, {ScriptStack, HelperStack})
NextDup == ConstructDup \/ CallDup
SpecDup == Init /\ [][NextDup]_vars

(* Alternation: differing records in turn, the log file keeping what was     *)
(* written                                                                   *)
ConstructAlt ==
    ConstructFrom({"app"}, {StrLevel("debug"), StrLevel("trace")},
                  {NoSave, Save(TRUE, StrPath(LogFile))}, {NoConfig}, {ScriptStack})
CallAlt ==
    CallFrom({"app"}, {INFO, ERROR}, {StrPayload("m1"), StrPayload("m2")}, {NoExc},
             {ScriptStack})
NextAlt == ConstructAlt \/ CallAlt
SpecAlt == Init /\ [][NextAlt]_vars

(* Exceptions: every leveled call in and out of an exception handler *)
ConstructExc ==
    ConstructFrom({"app"}, {StrLevel("debug"), StrLevel("Error")}, {NoSave},
                  {NoConfig}, {ScriptStack})
CallExc ==
    CallFrom({"app"}, LevelNos, {StrPayload("m1"), ExcPayload("m2")}, {NoExc, Boom},
             {ScriptStack})
NextExc == ConstructExc \/ CallExc
SpecExc == Init /\ [][NextExc]_vars

(* Formatting: custom configurations and callers, console and file sinks *)
ConstructFormat ==
    ConstructFrom({"app"}, {StrLevel("debug")}, {NoSave, Save(TRUE, StrPath(LogFile))},
                  {NoConfig, CustomConfig}, {FuncStack})
CallFormat ==
    CallFrom({"app"}, {INFO}, {StrPayload("m1")}, {NoExc}, {ScriptStack, HelperStack})
NextFormat == ConstructFormat \/ CallFormat
SpecFormat == Init /\ [][NextFormat]_vars

(* Sinks: construction with and without a log path, on new and used names, *)
(* and calls on the name the module itself has constructed                 *)
Construct ==
    ConstructFrom(Names, {StrLevel("trace"), StrLevel("Error")},
                  {NoSave, Save(TRUE, NonePath), Save(TRUE, StrPath(<<>>)),
                   Save(TRUE, StrPath(LogFile))},
                  {NoConfig}, {ScriptStack})
Call ==
    CallFrom({"MAIN"}, {INFO}, {StrPayload("m1"), StrPayload("m2")}, {NoExc},
             {ScriptStack})
Next == Construct \/ Call
Spec == Init /\ [][Next]_vars

----------------------------------------------------------------------------
(* Properties *)

OpKey == [levelname |-> getLevelName(lastOp.levelno), msg |-> lastOp.msg]

\* how many Logger(...) calls named n so far
ConstructionsIn(insts, n) == Cardinality({i \in 1..Len(insts) : insts[i].name = n})
Constructions(n) == ConstructionsIn(instances, n)

\* the writes of the last operation that went to a sink of the given kind
WritesTo(kind) == {k \in 1..Len(lastOp.writes) : lastOp.writes[k].sink = kind}

\* the numeric constant each level name stands for
NamedLevel(s) ==
    CASE s \in {"debug", "DEBUG"} -> 10
      [] s \in {"Info", "INFO"} -> 20
      [] s \in {"warning", "WARNING"} -> 30
      [] s \in {"Error", "ERROR"} -> 40
      [] s \in {"critical", "CRITICAL"} -> 50
      [] OTHER -> -1

(* C1: on a Logger freshly constructed with a named level L under a name   *)
(* not used before, the effective level is the numeric constant of L, and  *)
(* a leveled call that does not repeat the record accepted just before is  *)
(* written to the console exactly when its severity is at or above L.      *)
C1_FreshConstruction ==
    /\ lastOp'.op = "init"
    /\ ConstructionsIn(instances', lastOp'.name) = 1
    /\ lastOp'.levelArg.isStr
    /\ NamedLevel(lastOp'.levelArg.s) # -1
C1_FreshCall ==
    /\ lastOp'.op = "log"
    /\ Constructions(lastOp'.name) = 1
    /\ level[lastOp'.name] \in LevelNos
    /\ accepted[lastOp'.name] # <<OpKey'>>
C1_LevelGate ==
    [][ /\ C1_FreshConstruction =>
            getEffectiveLevel(level'[lastOp'.name]) = NamedLevel(lastOp'.levelArg.s)
        /\ C1_FreshCall =>
            /\ lastOp'.accepted <=> lastOp'.levelno >= level[lastOp'.name]
            /\ Cardinality(WritesTo("stream")') =
                  (IF lastOp'.levelno >= level[lastOp'.name] THEN 1 ELSE 0)
            /\ Len(lastOp'.writes) = Cardinality(WritesTo("stream")')
      ]_vars
C1_Witness ==
    /\ lastOp.op = "log"
    /\ lastOp.name = "app"
    /\ Constructions("app") = 1
    /\ level["app"] = WARNING
    /\ lastOp.levelno = WARNING
    /\ lastOp.accepted
    /\ Len(lastOp.writes) = 1

(* C7: constructing a Logger with an unrecognized level name does not      *)
(* raise, leaves the effective level at INFO, and emits a warning record   *)
(* about the invalid level through the named logger; known names map to    *)
(* their numeric constants and numeric levels pass through unchanged.      *)
C7_InvalidLevelWarns ==
    lastOp.op = "init" =>
        /\ (lastOp.levelArg.isStr /\ NamedLevel(lastOp.levelArg.s) = -1) =>
              /\ lastOp.result = "ok"
              /\ getEffectiveLevel(level[lastOp.name]) = INFO
              /\ lastOp.accepted
              /\ Len(lastOp.writes) >= 1
        /\ (lastOp.levelArg.isStr /\ NamedLevel(lastOp.levelArg.s) # -1) =>
              level[lastOp.name] = NamedLevel(lastOp.levelArg.s)
        /\ ~lastOp.levelArg.isStr => level[lastOp.name] = lastOp.levelArg.n

(* C2 as stated: of two consecutive leveled calls on one Logger with the   *)
(* same severity and the same payload, both at or above the logger's       *)
(* level, the second is dropped by the duplicate filter.                   *)
C2_ConsecutiveCalls ==
    /\ lastOp.op = "log"
    /\ lastOp'.op = "log"
    /\ lastOp'.inst = lastOp.inst
    /\ lastOp'.levelno = lastOp.levelno
    /\ lastOp'.payload = lastOp.payload
    /\ lastOp.enabled
    /\ lastOp'.enabled
C2_SamePayloadDropped ==
    [][C2_ConsecutiveCalls => ~lastOp'.accepted /\ lastOp'.writes = <<>>]_vars

(* C2 as amended: of two consecutive leveled calls on one Logger with the  *)
(* same severity and payload, made from the same calling function and, for *)
(* error and critical, while the same exception (or none) is being         *)
(* handled, both at or above the logger's level, the second is dropped by  *)
(* the duplicate filter and nothing is written for it.                     *)
C2_SameCallSite ==
    /\ lastOp'.stack[1].function = lastOp.stack[1].function
    /\ lastOp.levelno \in {ERROR, CRITICAL} => lastOp'.exc = lastOp.exc
C2_SameRenderedDropped ==
    [][(C2_ConsecutiveCalls /\ C2_SameCallSite) =>
            ~lastOp'.accepted /\ lastOp'.writes = <<>>]_vars
C2_Witness ==
    /\ lastOp.op = "log"
    /\ lastOp.levelno = ERROR
    /\ lastOp.exc = Boom
    /\ lastOp.stack = HelperStack
    /\ lastOp.enabled
    /\ ~lastOp.accepted
    /\ Len(filters[lastOp.name]) >= 2

(* C3: a record that is at or above the logger's level is dropped only if  *)
(* its (severity name, rendered message) equals that of the record the     *)
(* logger accepted immediately before; so of records A, B, A in turn, B    *)
(* differing from A in severity or message, all three are emitted, with    *)
(* one or with several DuplicateFilter instances attached.                 *)
C3_DroppedOnlyIfRepeated ==
    [][(lastOp'.op \in {"log", "init"} /\ lastOp'.enabled /\ ~lastOp'.accepted) =>
            accepted[lastOp'.name] = <<OpKey'>>]_vars
C3_Witness ==
    LET c == files[LogFile].content
    IN  /\ lastOp.op = "log"
        /\ lastOp.accepted
        /\ Len(filters[lastOp.name]) >= 2
        /\ Cardinality({k \in 1..Len(handlers[lastOp.name]) :
                            handlers[lastOp.name][k].kind = "file"}) = 1
        /\ Len(c) = 3
        /\ c[1] = c[3]
        /\ c[1].levelname # c[2].levelname
        /\ c[1].message.text = c[2].message.text

(* C6: the traceback text is appended to the rendered message exactly when *)
(* the call is error() or critical() and an exception is being handled; an *)
(* error or critical call outside an exception handler renders only the    *)
(* stringified payload, and debug, info and warning calls never carry a    *)
(* traceback.                                                              *)
C6_TracebackIffErrorInHandler ==
    lastOp.op = "log" =>
        /\ lastOp.msg.tb # <<>> <=>
              (lastOp.levelno \in {ERROR, CRITICAL} /\ lastOp.exc # NoExc)
        /\ lastOp.msg.tb # <<>> =>
              lastOp.msg.tb = <<"Traceback (most recent call last):", lastOp.exc>>
        /\ lastOp.msg.text = lastOp.payload.text
        /\ \A k \in 1..Len(lastOp.writes) : lastOp.writes[k].text.message = lastOp.msg
C6_Witness ==
    /\ lastOp.op = "log"
    /\ lastOp.levelno = CRITICAL
    /\ lastOp.exc = Boom
    /\ lastOp.payload.isExc
    /\ lastOp.accepted
    /\ Len(lastOp.writes) >= 1
    /\ lastOp.msg.tb # <<>>

IsPrefix(a, b) == Len(a) <= Len(b) /\ SubSeq(b, 1, Len(a)) = a

FileSinks(n) == {k \in 1..Len(handlers[n]) : handlers[n][k].kind = "file"}
StreamSinks(n) == {k \in 1..Len(handlers[n]) : handlers[n][k].kind = "stream"}

(* C4: constructing a Logger with is_save true and no log path (None or    *)
(* empty) fails with the configuration error; with is_save true and a path *)
(* the construction succeeds, the path's parent directory exists and the   *)
(* file sink is attached, and after an accepted emission on a logger with  *)
(* a file sink the file exists and contains the logged message text.       *)
C4_FileSink ==
    /\ (lastOp.op = "init" /\ lastOp.is_save) =>
          IF lastOp.log_path.isNone \/ lastOp.log_path.parts = <<>>
          THEN lastOp.result = "ValueError"
          ELSE /\ lastOp.result = "ok"
               /\ Parent(lastOp.log_path.parts) \in dirs
               /\ files[lastOp.log_path.parts].exists
               /\ \E k \in FileSinks(lastOp.name) :
                      /\ handlers[lastOp.name][k].path = lastOp.log_path.parts
                      /\ handlers[lastOp.name][k].owner = lastOp.inst
    /\ (lastOp.op = "log" /\ lastOp.accepted) =>
          \A k \in FileSinks(lastOp.name) :
              LET f == files[handlers[lastOp.name][k].path]
              IN  /\ f.exists
                  /\ \E j \in 1..Len(f.content) :
                         /\ f.content[j].message.text = lastOp.payload.text
                         /\ f.content[j].message = lastOp.msg
C4_Witness ==
    /\ lastOp.op = "log"
    /\ lastOp.accepted
    /\ FileSinks(lastOp.name) # {}
    /\ Len(files[LogFile].content) = 1
    /\ files[LogFile].content[1].message.text = <<"m1">>
    /\ <<"logs">> \in dirs

(* C9: constructing Logger k times with one name, never saving to a file,  *)
(* leaves the shared named logger with k console sinks and k duplicate     *)
(* filters; no construction or call replaces or removes an attached sink;  *)
(* and every record accepted after the k constructions is written k times  *)
(* to the console.                                                         *)
C9_NeverSaved(n) ==
    \A i \in 1..Len(instances) :
        instances[i].name = n => instances[i].ok /\ instances[i].log_path = NonePath
C9_Accumulated ==
    \A n \in Names :
        C9_NeverSaved(n) =>
            /\ Len(handlers[n]) = Constructions(n)
            /\ Cardinality(StreamSinks(n)) = Constructions(n)
            /\ Len(filters[n]) = Constructions(n)
            /\ (lastOp.name = n /\ lastOp.op = "log" /\ lastOp.accepted) =>
                  Cardinality(WritesTo("stream")) = Constructions(n)
            /\ (lastOp.name = n /\ lastOp.op = "init" /\ lastOp.accepted) =>
                  Cardinality(WritesTo("stream")) = Constructions(n) - 1
C9_SinksAccumulate ==
    [][ /\ C9_Accumulated'
        /\ \A n \in Names : IsPrefix(handlers[n], handlers'[n]) ]_vars
C9_Witness ==
    /\ Constructions("MAIN") = 3
    /\ C9_NeverSaved("MAIN")
    /\ Len(handlers["MAIN"]) = 3
    /\ lastOp.op = "log"
    /\ lastOp.name = "MAIN"
    /\ lastOp.accepted
    /\ Len(lastOp.writes) = 3

(* C10: a Logger construction that fails with the missing-log-path         *)
(* configuration error leaves the named logger's level, attached sinks and *)
(* duplicate filters as they were before the call.                         *)
C10_FailedConstructionChangesNothing ==
    [][(lastOp'.op = "init" /\ lastOp'.result = "ValueError") =>
            /\ level'[lastOp'.name] = level[lastOp'.name]
            /\ handlers'[lastOp'.name] = handlers[lastOp'.name]
            /\ filters'[lastOp'.name] = filters[lastOp'.name]]_vars

(* C5: a custom LogConfig passed to the constructor is stored verbatim on  *)
(* the instance, and its border_line is the first and the last line of     *)
(* every record rendered by that Logger's console and file sinks.          *)
C5_CustomBorderRendered ==
    /\ (lastOp.op = "init" /\ lastOp.config # NoConfig) =>
          instances[lastOp.inst].config = lastOp.config
    /\ \A k \in 1..Len(lastOp.writes) :
          lastOp.writes[k].sink \in {"stream", "file"} =>
              /\ lastOp.writes[k].text.border_top =
                    instances[lastOp.writes[k].owner].config.border_line
              /\ lastOp.writes[k].text.border_bottom =
                    instances[lastOp.writes[k].owner].config.border_line

\* the first of the caller's frames that format() does not skip
CallSite(userStack) == Location(userStack[FirstCaller(userStack, 1)])

(* C8: in every record a console or file sink renders, the source file,    *)
(* function and line are those of the first frame that belongs neither to  *)
(* the logger's own module nor to a module prefixed by "logging" or        *)
(* "pytest", so that console and file sinks render the same location.      *)
C8_CallSiteRendered ==
    lastOp.op = "log" =>
        \A k \in 1..Len(lastOp.writes) :
            lastOp.writes[k].sink \in {"stream", "file"} =>
                /\ lastOp.writes[k].text.filename = CallSite(lastOp.stack).filename
                /\ lastOp.writes[k].text.funcName = CallSite(lastOp.stack).funcName
                /\ lastOp.writes[k].text.lineno = CallSite(lastOp.stack).lineno

====
